---- MODULE Spec2Model ----
(***************************************************************************)
(* RCPSPInventoryProblem (src/rcpsp_inv_problem.py): a project scheduling  *)
(* instance with renewable and inventory resources, loaded from a          *)
(* Patterson-format file, and the evaluation of candidate schedules.       *)
(*                                                                         *)
(* Python lists are 0-indexed; sequences here are 1-indexed, so every read *)
(* of a list goes through At, which keeps the source's index arithmetic.   *)
(***************************************************************************)
EXTENDS Integers, Sequences, FiniteSets

VARIABLES
    file,       \* the instance file: a sequence of lines, each a sequence of tokens
    pc,         \* "new" before __init__ has run, "loaded" after
    self,       \* the attributes of the RCPSPInventoryProblem object
    solution,   \* the caller's schedule list, as it is after the last call
    ret,        \* what the last call did: its name, argument and outcome
    calls       \* calls made on the object so far: 0, 1, or 2 for two or more

vars == <<file, pc, self, solution, ret, calls>>

----------------------------------------------------------------------------
(* Bounds of the explored inputs. *)

\* The size of an instance file is its task count plus the sum of its numbers
\* other than the successor IDs (capacities, initial levels, durations,
\* weights, consumptions, productions, successor counts).

\* most tasks in an instance file
MaxTasks == 2
\* largest size of a file whose instance gets one evaluate_solution call
MaxSize == 6
\* latest start time in a schedule handed to evaluate_solution
MaxStart == 1
\* most inventory resources in a file given to the loader
MaxInventories == 2
\* largest size of a file given to the loader
MaxLoadSize == 4
\* largest size of a file whose instance gets a sequence of calls
MaxCallSize == 4

\* line 45
PenaltyMultiplier == 1000000

----------------------------------------------------------------------------
(* Python primitives. *)

\* lst[k], with Python's negative indices counting from the end
At(lst, k) == IF k < 0 THEN lst[Len(lst) + k + 1] ELSE lst[k + 1]

\* [f(k) for k in range(n)] is written [k \in 1..n |-> f(k - 1)]

\* int(token): a token is its sequence of decimal digits
RECURSIVE int(_)
int(token) ==
    IF Len(token) = 1 THEN token[1]
    ELSE 10 * int(SubSeq(token, 1, Len(token) - 1)) + token[Len(token)]

\* sum(lst)
RECURSIVE sum(_)
sum(lst) == IF lst = <<>> THEN 0 ELSE lst[1] + sum(Tail(lst))

----------------------------------------------------------------------------
(* Instance files. *)

\* the decimal digits of n
RECURSIVE Digits(_)
Digits(n) == IF n < 10 THEN <<n>> ELSE Append(Digits(n \div 10), n % 10)

\* a line of numbers as the line's tokens
Tokens(numbers) == [k \in 1..Len(numbers) |-> Digits(numbers[k])]

\* the sequences of d naturals that add up to exactly s
RECURSIVE VecsExact(_, _)
VecsExact(d, s) ==
    IF d = 0 THEN (IF s = 0 THEN {<<>>} ELSE {})
    ELSE UNION {LET rests == VecsExact(d - 1, s - v)
                IN {<<v>> \o rest : rest \in rests} : v \in 0..s}

\* the sequences of d naturals that add up to at most s
VecsUpTo(d, s) == UNION {VecsExact(d, a) : a \in 0..s}

\* the task lines of size at most s in a file of n tasks, R renewable and K
\* inventory resources: duration, R weights, K (consumption, production)
\* pairs, the successor count m and that many 1-based successor IDs; the
\* size of a line is the sum of its numbers other than the IDs
TaskLines(n, R, K, s) ==
    UNION {{v \o <<m>> \o ids : v \in VecsUpTo(1 + R + 2 * K, s - m),
                                ids \in [1..m -> 1..n]}
           : m \in 0..s}

LineSize(R, K, line) == sum(SubSeq(line, 1, 2 + R + 2 * K))

\* the file is one of those that begin with the lines "done" and go on with k
\* task lines of total size at most s
RECURSIVE FileIs(_, _, _, _, _, _)
FileIs(k, n, R, K, s, done) ==
    IF k = 0 THEN file = [l \in 1..Len(done) |-> Tokens(done[l])]
    ELSE \E line \in TaskLines(n, R, K, s) :
            FileIs(k - 1, n, R, K, s - LineSize(R, K, line), Append(done, line))

\* the file is a well-formed instance file of n tasks, R renewable and K
\* inventory resources whose numbers add up to at most s
WellFormedFile(n, R, K, s) ==
    \E second \in VecsUpTo(R + K, s) :
        FileIs(n, n, R, K, s - sum(second), <<<<n, R, K>>, second>>)

----------------------------------------------------------------------------
(* __init__ and _load_instance. *)

\* the object before __init__ has loaded anything
NewObject == [instance_file |-> "instance.txt"]

\* a task line read as all consumptions followed by all productions
TaskRecordGrouped(lines, i, nb_resources, nb_inventories) ==
    LET tokens == At(lines, i + 2)
        idx == 2 * nb_inventories + nb_resources + 1
        nb_succ == int(At(tokens, idx))
    IN [duration |-> int(At(tokens, 0)),
        weight |-> [r \in 1..nb_resources |-> int(At(tokens, (r - 1) + 1))],
        start_cons |-> [r \in 1..nb_inventories |->
            int(At(tokens, (r - 1) + nb_resources + 1))],
        end_prod |-> [r \in 1..nb_inventories |->
            int(At(tokens, (r - 1) + nb_inventories + nb_resources + 1))],
        nb_successors |-> nb_succ,
        successors |-> [s \in 1..nb_succ |-> int(At(tokens, idx + 1 + (s - 1))) - 1]]

\* lines 78-90: one iteration of the per-task loop, the attributes read from
\* task line i
TaskRecord(lines, i, nb_resources, nb_inventories) ==
    LET tokens == At(lines, i + 2)
        idx == 2 * nb_inventories + nb_resources + 1
        nb_succ == int(At(tokens, idx))
    IN [duration |-> int(At(tokens, 0)),
        weight |-> [r \in 1..nb_resources |-> int(At(tokens, (r - 1) + 1))],
        start_cons |-> [r \in 1..nb_inventories |->
            int(At(tokens, 2 * (r - 1) + nb_resources + 1))],
        end_prod |-> [r \in 1..nb_inventories |->
            int(At(tokens, 2 * (r - 1) + nb_resources + 2))],
        nb_successors |-> nb_succ,
        successors |-> [s \in 1..nb_succ |-> int(At(tokens, idx + 1 + (s - 1))) - 1]]

\* the object after __init__(instance_file) on a file with these lines
LoadInstance(lines) ==
    LET first == At(lines, 0)
        nb_tasks == int(At(first, 0))
        nb_resources == int(At(first, 1))
        nb_inventories == int(At(first, 2))
        second == At(lines, 1)
        task == [i \in 1..nb_tasks |->
            TaskRecord(lines, i - 1, nb_resources, nb_inventories)]
        duration == [i \in 1..nb_tasks |-> task[i].duration]
    IN [instance_file |-> "instance.txt",
        nb_tasks |-> nb_tasks,
        nb_resources |-> nb_resources,
        nb_inventories |-> nb_inventories,
        capacity |-> [r \in 1..nb_resources |-> int(At(second, r - 1))],
        init_level |-> [r \in 1..nb_inventories |->
            int(At(second, (r - 1) + nb_resources))],
        duration |-> duration,
        weight |-> [i \in 1..nb_tasks |-> task[i].weight],
        start_cons |-> [i \in 1..nb_tasks |-> task[i].start_cons],
        end_prod |-> [i \in 1..nb_tasks |-> task[i].end_prod],
        nb_successors |-> [i \in 1..nb_tasks |-> task[i].nb_successors],
        successors |-> [i \in 1..nb_tasks |-> task[i].successors],
        horizon |-> sum(duration),
        penalty_multiplier |-> PenaltyMultiplier]

----------------------------------------------------------------------------
(* evaluate_solution. *)

\* a length check that lets a schedule that is too long through
LengthTooShort(obj, sol) == Len(sol) < obj.nb_tasks

\* the test of line 105
LengthMismatch(obj, sol) == Len(sol) /= obj.nb_tasks

\* a precedence charge that flags a violation instead of measuring it
precedence_flag(sol, succ, finish_i, penalty) ==
    IF At(sol, succ) < finish_i THEN penalty + 1 ELSE penalty

\* lines 114-115: the penalty after looking at one successor of a task
precedence_charge(sol, succ, finish_i, penalty) ==
    IF At(sol, succ) < finish_i
    THEN penalty + (finish_i - At(sol, succ))
    ELSE penalty

\* lines 113-115: for succ in self.successors[i], over the entries still to visit
RECURSIVE successor_loop(_, _, _, _)
successor_loop(sol, finish_i, succs, penalty) ==
    IF succs = <<>> THEN penalty
    ELSE successor_loop(sol, finish_i, Tail(succs),
                        precedence_charge(sol, Head(succs), finish_i, penalty))

\* lines 111-115: for i in range(self.nb_tasks), from i on
RECURSIVE precedence_loop(_, _, _, _)
precedence_loop(obj, sol, i, penalty) ==
    IF i >= obj.nb_tasks THEN penalty
    ELSE LET finish_i == At(sol, i) + At(obj.duration, i)
         IN precedence_loop(obj, sol, i + 1,
                successor_loop(sol, finish_i, At(obj.successors, i), penalty))

\* line 118: max over the finish times of tasks i.., best being the largest so far
RECURSIVE max_loop(_, _, _, _)
max_loop(obj, sol, i, best) ==
    IF i >= obj.nb_tasks THEN best
    ELSE LET finish == At(sol, i) + At(obj.duration, i)
         IN max_loop(obj, sol, i + 1, IF finish > best THEN finish ELSE best)

\* a task still counted as active at its finish instant
ActiveThroughFinish(obj, sol, i, t) ==
    At(sol, i) <= t /\ t <= At(sol, i) + At(obj.duration, i)

\* line 126: task i is active at time t
Active(obj, sol, i, t) ==
    At(sol, i) <= t /\ t < At(sol, i) + At(obj.duration, i)

\* lines 124-127: for i in range(self.nb_tasks), from i on
RECURSIVE usage_loop(_, _, _, _, _, _)
usage_loop(obj, sol, t, r, i, usage) ==
    IF i >= obj.nb_tasks THEN usage
    ELSE usage_loop(obj, sol, t, r, i + 1,
            IF Active(obj, sol, i, t)
            THEN usage + At(At(obj.weight, i), r)
            ELSE usage)

\* lines 128-129: the penalty after comparing a usage with the capacity
capacity_charge(usage, capacity_r, penalty) ==
    IF usage > capacity_r THEN penalty + (usage - capacity_r) ELSE penalty

\* lines 122-129: for r in range(self.nb_resources), from r on
RECURSIVE resource_loop(_, _, _, _, _)
resource_loop(obj, sol, t, r, penalty) ==
    IF r >= obj.nb_resources THEN penalty
    ELSE resource_loop(obj, sol, t, r + 1,
            capacity_charge(usage_loop(obj, sol, t, r, 0, 0),
                            At(obj.capacity, r), penalty))

\* lines 121-129: for t in range(makespan), from t on
RECURSIVE renewable_loop(_, _, _, _, _)
renewable_loop(obj, sol, makespan, t, penalty) ==
    IF t >= makespan THEN penalty
    ELSE renewable_loop(obj, sol, makespan, t + 1,
            resource_loop(obj, sol, t, 0, penalty))

\* a task that counts as finished only after its finish instant
FinishedStrictly(obj, sol, i, t) == At(sol, i) + At(obj.duration, i) < t

\* line 137: task i has finished by time t
Finished(obj, sol, i, t) == At(sol, i) + At(obj.duration, i) <= t

\* a task that counts as started only after its start instant
StartedStrictly(obj, sol, i, t) == At(sol, i) < t

\* line 139: task i has started by time t
Started(obj, sol, i, t) == At(sol, i) <= t

\* lines 136-140: for i in range(self.nb_tasks), from i on
RECURSIVE level_loop(_, _, _, _, _, _)
level_loop(obj, sol, t, r, i, inventory) ==
    IF i >= obj.nb_tasks THEN inventory
    ELSE LET produced == IF Finished(obj, sol, i, t)
                         THEN inventory + At(At(obj.end_prod, i), r)
                         ELSE inventory
             consumed == IF Started(obj, sol, i, t)
                         THEN produced - At(At(obj.start_cons, i), r)
                         ELSE produced
         IN level_loop(obj, sol, t, r, i + 1, consumed)

\* lines 141-142: the penalty after looking at one inventory level
level_charge(inventory, penalty) ==
    IF inventory < 0 THEN penalty + (IF inventory < 0 THEN -inventory ELSE inventory)
    ELSE penalty

\* lines 133-142: for r in range(self.nb_inventories), from r on
RECURSIVE inventory_resource_loop(_, _, _, _, _)
inventory_resource_loop(obj, sol, t, r, penalty) ==
    IF r >= obj.nb_inventories THEN penalty
    ELSE inventory_resource_loop(obj, sol, t, r + 1,
            level_charge(level_loop(obj, sol, t, r, 0, At(obj.init_level, r)),
                         penalty))

\* lines 132-142: for t in range(makespan), from t on
RECURSIVE inventory_loop(_, _, _, _, _)
inventory_loop(obj, sol, makespan, t, penalty) ==
    IF t >= makespan THEN penalty
    ELSE inventory_loop(obj, sol, makespan, t + 1,
            inventory_resource_loop(obj, sol, t, 0, penalty))

\* a cost that charges any violation as one unit
cost_capped(obj, makespan, penalty) ==
    makespan + obj.penalty_multiplier * (IF penalty > 0 THEN 1 ELSE 0)

\* line 144
cost_of(obj, makespan, penalty) == makespan + obj.penalty_multiplier * penalty

\* evaluate_solution(solution): the outcome of the call. "penalties" lists the
\* value of the local variable penalty after each accumulation loop that ran
\* to its end.
evaluate_solution(obj, sol) ==
    IF LengthMismatch(obj, sol)
    THEN [op |-> "evaluate_solution", arg |-> sol, outcome |-> "raise",
          error |-> "ValueError", line |-> 106, penalties |-> <<>>]
    ELSE
    LET precedence == precedence_loop(obj, sol, 0, 0)
    IN IF obj.nb_tasks = 0
       THEN \* max() of an empty sequence
            [op |-> "evaluate_solution", arg |-> sol, outcome |-> "raise",
             error |-> "ValueError", line |-> 118, penalties |-> <<precedence>>]
       ELSE
       LET makespan == max_loop(obj, sol, 1, At(sol, 0) + At(obj.duration, 0))
           renewable == renewable_loop(obj, sol, makespan, 0, precedence)
           inventory == inventory_loop(obj, sol, makespan, 0, renewable)
       IN [op |-> "evaluate_solution", arg |-> sol, outcome |-> "return",
           value |-> cost_of(obj, makespan, inventory), makespan |-> makespan,
           penalties |-> <<precedence, renewable, inventory>>]

----------------------------------------------------------------------------
(* The calls on a loaded object. *)

NoCall == [op |-> "none"]

\* the list of k zeros
Zeros(k) == [i \in 1..k |-> 0]

\* the schedules handed to evaluate_solution on an instance of n tasks: every
\* list of n start times up to MaxStart, and one list of each wrong length
Schedules(n) ==
    [1..n -> 0..MaxStart] \cup {Zeros(k) : k \in (0..(MaxTasks + 1)) \ {n}}

Min(a, b) == IF a < b THEN a ELSE b

\* an evaluate_solution that turns self.duration into the finish times
EvaluateSolutionInPlace ==
    /\ pc = "loaded"
    /\ \E s \in Schedules(self.nb_tasks) :
        /\ ret' = evaluate_solution(self, s)
        /\ solution' = s
        /\ self' = IF Len(s) = self.nb_tasks
                   THEN [self EXCEPT !.duration =
                            [i \in 1..self.nb_tasks |-> s[i] + self.duration[i]]]
                   ELSE self
    /\ calls' = Min(calls + 1, 2)
    /\ UNCHANGED <<file, pc>>

\* evaluate_solution(s) for a schedule s of the caller
EvaluateSolution ==
    /\ pc = "loaded"
    /\ \E s \in Schedules(self.nb_tasks) :
        /\ ret' = evaluate_solution(self, s)
        /\ solution' = s
    /\ calls' = Min(calls + 1, 2)
    /\ UNCHANGED <<file, pc, self>>

\* random_solution(): one start time in 0..horizon per task (draws above
\* MaxStart are left out); the caller keeps the list as its schedule
RandomSolution ==
    /\ pc = "loaded"
    /\ \E s \in [1..self.nb_tasks -> 0..Min(self.horizon, MaxStart)] :
        /\ ret' = [op |-> "random_solution", value |-> s]
        /\ solution' = s
    /\ calls' = Min(calls + 1, 2)
    /\ UNCHANGED <<file, pc, self>>

\* RCPSPInventoryProblem(instance_file)
Construct ==
    /\ pc = "new"
    /\ self' = LoadInstance(file)
    /\ pc' = "loaded"
    /\ UNCHANGED <<file, solution, ret, calls>>

----------------------------------------------------------------------------
(* The quantities the claims speak of, for the call recorded in ret. They   *)
(* are written as sums over sets, from the words of the specification, and  *)
(* read the instance and the schedule only.                                 *)

\* the sum of f[x] over the domain of f
RECURSIVE SumFn(_)
SumFn(f) ==
    IF DOMAIN f = {} THEN 0
    ELSE LET x == CHOOSE y \in DOMAIN f : TRUE
         IN f[x] + SumFn([y \in DOMAIN f \ {x} |-> f[y]])

Evaluated == ret.op = "evaluate_solution"
WellSized == Evaluated /\ Len(ret.arg) = self.nb_tasks
Returned == Evaluated /\ ret.outcome = "return"

TaskIds == 0..(self.nb_tasks - 1)
StartOf(i) == ret.arg[i + 1]
FinishOf(i) == ret.arg[i + 1] + self.duration[i + 1]

\* max over tasks of start + duration
MakespanOf == CHOOSE m \in {FinishOf(i) : i \in TaskIds} :
                \A i \in TaskIds : FinishOf(i) <= m

\* by how much successor j starts before task i finishes
Overlap(i, j) == IF StartOf(j) < FinishOf(i) THEN FinishOf(i) - StartOf(j) ELSE 0

\* the precedence edges (i, j): j is in the set of successors of i
EdgeSet == UNION {{<<i, self.successors[i + 1][k]>> :
                      k \in 1..Len(self.successors[i + 1])} : i \in TaskIds}

\* the entries (i, k) of the successor lists: the k-th listed successor of i
EdgeEntries == UNION {{<<i, k>> : k \in 1..Len(self.successors[i + 1])}
                      : i \in TaskIds}

\* each edge of the set charged once
PrecedencePenaltyPerEdge == SumFn([e \in EdgeSet |-> Overlap(e[1], e[2])])

\* each listed successor charged once
PrecedencePenaltyPerEntry ==
    SumFn([e \in EdgeEntries |->
            Overlap(e[1], self.successors[e[1] + 1][e[2]])])

\* usage(t, r): the weights of the tasks with start <= t < start + duration
UsageAt(t, r) ==
    SumFn([i \in {j \in TaskIds : StartOf(j) <= t /\ t < FinishOf(j)} |->
            self.weight[i + 1][r + 1]])

\* the time units 0 .. makespan - 1 paired with the resources 0 .. count - 1
Slots(count) == (0..(MakespanOf - 1)) \X (0..(count - 1))

RenewablePenalty ==
    SumFn([e \in Slots(self.nb_resources) |->
            IF UsageAt(e[1], e[2]) > self.capacity[e[2] + 1]
            THEN UsageAt(e[1], e[2]) - self.capacity[e[2] + 1]
            ELSE 0])

\* level(t, r): initial level, plus production of the tasks finished by t,
\* minus consumption of the tasks started by t
LevelAt(t, r) ==
    self.init_level[r + 1]
    + SumFn([i \in {j \in TaskIds : FinishOf(j) <= t} |-> self.end_prod[i + 1][r + 1]])
    - SumFn([i \in {j \in TaskIds : StartOf(j) <= t} |-> self.start_cons[i + 1][r + 1]])

InventoryPenalty ==
    SumFn([e \in {x \in Slots(self.nb_inventories) : LevelAt(x[1], x[2]) < 0} |->
            IF LevelAt(e[1], e[2]) < 0 THEN -LevelAt(e[1], e[2]) ELSE LevelAt(e[1], e[2])])

\* what each accumulation loop of the call added to the local variable penalty
AddedByPrecedence == ret.penalties[1]
AddedByRenewable == ret.penalties[2] - ret.penalties[1]
AddedByInventory == ret.penalties[3] - ret.penalties[2]

\* some successor starts before its predecessor finishes
PrecedenceBroken == \E e \in EdgeSet : StartOf(e[2]) < FinishOf(e[1])

\* at some time t >= 0 a renewable resource is used beyond its capacity (no
\* task is active from the makespan on)
CapacityExceeded ==
    \E t \in 0..MakespanOf, r \in 0..(self.nb_resources - 1) :
        UsageAt(t, r) > self.capacity[r + 1]

\* at some time t >= 0 an inventory level is negative (the levels stay what
\* they are at the makespan from then on)
LevelNegative ==
    \E t \in 0..MakespanOf, r \in 0..(self.nb_inventories - 1) : LevelAt(t, r) < 0

Infeasible == PrecedenceBroken \/ CapacityExceeded \/ LevelNegative

----------------------------------------------------------------------------
(* The claims. *)

\* C1: for an instance of at least one task and a schedule of one start time
\* per task, evaluate_solution returns makespan + 1,000,000 * (precedence
\* penalty + renewable penalty + inventory penalty), the makespan being the
\* largest start + duration and the three penalties summed in full.
C1_CostIsMakespanPlusPenalties ==
    (WellSized /\ self.nb_tasks >= 1) =>
        /\ Returned
        /\ ret.makespan = MakespanOf
        /\ ret.value = MakespanOf + 1000000 *
              (PrecedencePenaltyPerEntry + RenewablePenalty + InventoryPenalty)

\* a call on a schedule that breaks all three kinds of constraint, one of
\* them by more than one unit
C1_Witness ==
    /\ Returned
    /\ PrecedencePenaltyPerEntry > 0
    /\ RenewablePenalty > 0
    /\ InventoryPenalty > 0
    /\ PrecedencePenaltyPerEntry + RenewablePenalty + InventoryPenalty > 3

\* C2: a schedule whose length differs from the task count makes
\* evaluate_solution raise at its length check, before any penalty or
\* makespan is computed; no cost is returned and the schedule is left as it
\* was passed.
C2_WrongLengthRaises ==
    (Evaluated /\ Len(ret.arg) /= self.nb_tasks) =>
        /\ ret.outcome = "raise"
        /\ ret.error = "ValueError"
        /\ ret.line = 106
        /\ ret.penalties = <<>>
        /\ solution = ret.arg

\* a call with a schedule longer than the task count of an instance with tasks
C2_Witness ==
    /\ Evaluated
    /\ self.nb_tasks >= 1
    /\ Len(ret.arg) > self.nb_tasks

\* C3: on a schedule of exactly task_count start times evaluate_solution
\* returns a cost and never raises, for any task_count >= 0.
C3_TotalOnWellSized == WellSized => ret.outcome = "return"

\* C4: a schedule that breaks a precedence, exceeds a capacity at some time
\* t >= 0 or has a negative inventory level at some time t >= 0 costs at
\* least makespan + 1,000,000.
C4_InfeasibleIsPenalised ==
    (Returned /\ Infeasible) => ret.value >= MakespanOf + 1000000

C6_InventoryPenalty == Returned => AddedByInventory = InventoryPenalty

\* a call charged for a negative level at a time when one task has just
\* started and consumed and another has just finished and produced
C6_Witness ==
    /\ Returned
    /\ AddedByInventory > 0
    /\ \E t \in 0..(MakespanOf - 1), i \in TaskIds, j \in TaskIds :
        /\ LevelAt(t, 0) < 0
        /\ StartOf(i) = t /\ self.start_cons[i + 1][1] > 0
        /\ FinishOf(j) = t /\ self.end_prod[j + 1][1] > 0

\* C7: the renewable penalty is the sum of usage(t, r) - capacity[r] over the
\* time units t in [0, makespan) and renewable resources r with
\* usage(t, r) > capacity[r], where usage counts the tasks with
\* start <= t < start + duration.
C7_RenewablePenalty == Returned => AddedByRenewable = RenewablePenalty

\* a call charged for an overflow, with a task of positive weight that has
\* finished before the makespan
C7_Witness ==
    /\ Returned
    /\ AddedByRenewable > 0
    /\ \E i \in TaskIds :
        /\ self.weight[i + 1][1] > 0
        /\ FinishOf(i) > StartOf(i)
        /\ FinishOf(i) < MakespanOf

\* C8, as stated: the precedence penalty charges each precedence edge (i, j),
\* j in the set successors[i], once, by its overlap.
C8_EachEdgeChargedOnce == Returned => AddedByPrecedence = PrecedencePenaltyPerEdge

\* C8, amended: the precedence penalty charges each entry of the list
\* successors[i] by its overlap, so an edge listed k times is charged k times;
\* a successor starting exactly at its predecessor's finish adds nothing.
C8_EachEntryCharged == Returned => AddedByPrecedence = PrecedencePenaltyPerEntry

\* a call on an instance that lists a successor twice, with that successor
\* starting two time units before its predecessor finishes
C8_Witness ==
    /\ Returned
    /\ \E i \in TaskIds :
        /\ Len(self.successors[i + 1]) = 2
        /\ self.successors[i + 1][1] = self.successors[i + 1][2]
        /\ Overlap(i, self.successors[i + 1][1]) = 2

\* C10: evaluate_solution and random_solution leave every attribute of the
\* instance as the constructor set it, evaluate_solution leaves the caller's
\* schedule as it was passed, and whatever calls came before, the outcome of
\* evaluate_solution on a schedule is the one the freshly constructed
\* instance gives for it.
C10_NoSideEffects ==
    /\ self = LoadInstance(file)
    /\ Evaluated =>
        /\ solution = ret.arg
        /\ ret = evaluate_solution(LoadInstance(file), ret.arg)

\* an evaluate_solution call that returned a cost with a penalty, made after
\* at least one other call
C10_Witness ==
    /\ calls = 2
    /\ Returned
    /\ ret.value > 1000000
    /\ self.horizon > 0

\* the tokens of task i's line in the file, as numbers
LineNumbers(i) == [k \in 1..Len(file[i + 3]) |-> int(file[i + 3][k])]

----------------------------------------------------------------------------
(* Specifications. *)

\* the file is a well-formed file of at most MaxTasks tasks, R renewable and
\* K inventory resources, of size at most s
FileUpTo(R, K, s) ==
    \E n \in 0..Min(MaxTasks, s) : WellFormedFile(n, R, K, s - n)

\* Spec: one evaluate_solution call on an instance with one renewable and one
\* inventory resource, constructed from a file of size at most MaxSize.
Init ==
    /\ FileUpTo(1, 1, MaxSize)
    /\ pc = "loaded"
    /\ self = LoadInstance(file)
    /\ solution = <<>>
    /\ ret = NoCall
    /\ calls = 0

FirstCall == calls = 0 /\ EvaluateSolution

Next == FirstCall

Spec == Init /\ [][Next]_vars

\* SpecCalls: any sequence of evaluate_solution and random_solution calls on
\* an instance constructed from a file of size at most MaxCallSize.
InitCalls ==
    /\ FileUpTo(1, 1, MaxCallSize)
    /\ pc = "loaded"
    /\ self = LoadInstance(file)
    /\ solution = <<>>
    /\ ret = NoCall
    /\ calls = 0

NextCalls == EvaluateSolution \/ RandomSolution

SpecCalls == InitCalls /\ [][NextCalls]_vars

\* SpecLoad: the construction of the object from a file of size at most
\* MaxLoadSize with up to one renewable and MaxInventories inventory resources.
InitLoad ==
    /\ \E R \in 0..1, K \in 0..MaxInventories : FileUpTo(R, K, MaxLoadSize)
    /\ pc = "new"
    /\ self = NewObject
    /\ solution = <<>>
    /\ ret = NoCall
    /\ calls = 0

NextLoad == Construct

SpecLoad == InitLoad /\ [][NextLoad]_vars

====
